---------------------------- MODULE Spec2Model ----------------------------
(***************************************************************************)
(* A model of FraudDetectionEngine (src/fraud_detection_engine.py).        *)
(*                                                                         *)
(* Python values are represented as follows.                               *)
(*   - a dict is a record; a transaction is a record whose domain is the   *)
(*     set of keys that are present, so dict.get(key, default) is Get;     *)
(*   - a list is a sequence;                                               *)
(*   - a value that may be None is a sequence of length 0 (None) or 1;     *)
(*   - the text of an alert id is the sequence of its characters;          *)
(*   - a tuple returned by a function is a TLA+ tuple.                     *)
(***************************************************************************)
EXTENDS Integers, Sequences, FiniteSets

VARIABLES
    alerts,      \* self.alerts
    statistics,  \* self.statistics
    results,     \* the caller's list of the results analyze_transaction returned
    call         \* the most recent call: its name, its argument, the value returned

vars == <<alerts, statistics, results, call>>

-----------------------------------------------------------------------------
(* Bounds of the model.                                                    *)

MaxCalls == 3          \* analyze_transaction calls in Spec
MaxTopCalls == 11      \* analyze_transaction calls in SpecTop
MaxRecCalls == 10      \* analyze_transaction calls in SpecRec
MaxRecCritical == 1    \* CRITICAL transactions among them

-----------------------------------------------------------------------------
(* Configuration set by __init__.                                          *)

risk_thresholds == [LOW |-> 30, MEDIUM |-> 60, HIGH |-> 80, CRITICAL |-> 95]

\* the weights with those of new_payee and account_age exchanged
fraud_indicators_exchanged ==
    [velocity |-> 20, amount_spike |-> 25, time_anomaly |-> 15,
     location_change |-> 20, new_payee |-> 15, round_amount |-> 5,
     account_age |-> 10, pattern_match |-> 30]

fraud_indicators ==
    [velocity |-> 20, amount_spike |-> 25, time_anomaly |-> 15,
     location_change |-> 20, new_payee |-> 10, round_amount |-> 5,
     account_age |-> 15, pattern_match |-> 30]

InitialStatistics ==
    [total_transactions |-> 0, flagged_transactions |-> 0, critical_alerts |-> 0,
     high_risk |-> 0, medium_risk |-> 0, low_risk |-> 0]

-----------------------------------------------------------------------------
(* Helpers for Python built-ins.                                           *)

\* dict.get(key, default)
Get(d, key, default) == IF key \in DOMAIN d THEN d[key] ELSE default

\* dict.get(key): the value, or None
GetOpt(d, key) == IF key \in DOMAIN d THEN <<d[key]>> ELSE <<>>

\* min(a, b)
Min(a, b) == IF a <= b THEN a ELSE b

\* max(a, b)
Max(a, b) == IF a >= b THEN a ELSE b

-----------------------------------------------------------------------------
(* calculate_risk_score: the eight checks in the order of the code, each   *)
(* adding its weight to risk_score and its label to indicators_triggered.  *)

Trigger(acc, weight, label) ==
    [risk_score |-> acc.risk_score + fraud_indicators[weight],
     indicators_triggered |-> Append(acc.indicators_triggered, label)]

\* the sum of the weights returned as it is
Unclamped(risk_score) == risk_score

ClampScore(risk_score) == Min(risk_score, 100)

calculate_risk_score(transaction) ==
    LET amount == Get(transaction, "amount", 0)
        avg_amount == Get(transaction, "avg_transaction_amount", 0)
        hour == Get(transaction, "hour", 12)
        account_age_days == Get(transaction, "account_age_days", 365)
        a0 == [risk_score |-> 0, indicators_triggered |-> <<>>]
        a1 == IF Get(transaction, "transactions_last_hour", 0) > 3
              THEN Trigger(a0, "velocity", "HIGH_VELOCITY") ELSE a0
        a2 == IF avg_amount > 0 /\ amount > avg_amount * 3
              THEN Trigger(a1, "amount_spike", "AMOUNT_SPIKE") ELSE a1
        a3 == IF 2 <= hour /\ hour <= 5
              THEN Trigger(a2, "time_anomaly", "TIME_ANOMALY") ELSE a2
        a4 == IF Get(transaction, "location_changed", FALSE)
              THEN Trigger(a3, "location_change", "LOCATION_CHANGE") ELSE a3
        a5 == IF Get(transaction, "new_payee", FALSE)
              THEN Trigger(a4, "new_payee", "NEW_PAYEE") ELSE a4
        a6 == IF amount > 0 /\ amount % 100 = 0 /\ amount >= 500
              THEN Trigger(a5, "round_amount", "ROUND_AMOUNT") ELSE a5
        a7 == IF account_age_days < 30 /\ amount > 1000
              THEN Trigger(a6, "account_age", "NEW_ACCOUNT_RISK") ELSE a6
        a8 == IF Get(transaction, "pattern_match", FALSE)
              THEN Trigger(a7, "pattern_match", "PATTERN_MATCH") ELSE a7
    IN  <<ClampScore(a8.risk_score), a8.indicators_triggered>>

-----------------------------------------------------------------------------
(* A variant of classify_risk_level whose thresholds are exclusive.         *)

classify_risk_level_exclusive(risk_score) ==
    IF risk_score > risk_thresholds.CRITICAL THEN "CRITICAL"
    ELSE IF risk_score > risk_thresholds.HIGH THEN "HIGH"
    ELSE IF risk_score > risk_thresholds.MEDIUM THEN "MEDIUM"
    ELSE IF risk_score > risk_thresholds.LOW THEN "LOW"
    ELSE "NORMAL"

(* classify_risk_level: most severe threshold first.                       *)

classify_risk_level(risk_score) ==
    IF risk_score >= risk_thresholds.CRITICAL THEN "CRITICAL"
    ELSE IF risk_score >= risk_thresholds.HIGH THEN "HIGH"
    ELSE IF risk_score >= risk_thresholds.MEDIUM THEN "MEDIUM"
    ELSE IF risk_score >= risk_thresholds.LOW THEN "LOW"
    ELSE "NORMAL"

-----------------------------------------------------------------------------
(* get_recommended_action: actions.get(risk_level, 'MONITOR').             *)

actions ==
    [CRITICAL |-> "IMMEDIATE BLOCK - Contact customer and fraud team immediately",
     HIGH |-> "HOLD FOR REVIEW - Manual investigation required before processing",
     MEDIUM |-> "ENHANCED MONITORING - Flag for additional verification",
     LOW |-> "STANDARD MONITORING - Log for pattern analysis"]

get_recommended_action(risk_level) == Get(actions, risk_level, "MONITOR")

-----------------------------------------------------------------------------
(* The alert id, f"ALERT-{n:05d}": the decimal digits of n, padded on the  *)
(* left with zeros to a width of at least 5.                               *)

DigitChar == <<"0", "1", "2", "3", "4", "5", "6", "7", "8", "9">>

RECURSIVE Decimal(_)
Decimal(n) ==
    IF n < 10 THEN <<DigitChar[n + 1]>>
    ELSE Append(Decimal(n \div 10), DigitChar[(n % 10) + 1])

RECURSIVE ZeroPad(_, _)
ZeroPad(digits, width) ==
    IF Len(digits) >= width THEN digits ELSE ZeroPad(<<"0">> \o digits, width)

FormatAlertId(n) == <<"A", "L", "E", "R", "T", "-">> \o ZeroPad(Decimal(n), 5)

-----------------------------------------------------------------------------
(* A variant of generate_alert that numbers the alerts from 0.             *)

generate_alert_from_zero(log, transaction, risk_score, risk_level, indicators, now) ==
    [alert_id |-> FormatAlertId(Len(log)),
     timestamp |-> now,
     transaction_id |-> GetOpt(transaction, "transaction_id"),
     customer_id |-> GetOpt(transaction, "customer_id"),
     amount |-> GetOpt(transaction, "amount"),
     risk_score |-> risk_score,
     risk_level |-> risk_level,
     indicators |-> indicators,
     recommended_action |-> get_recommended_action(risk_level),
     status |-> "PENDING_REVIEW"]

(* generate_alert: the alert record, which the caller appends to the log.  *)
(* now is the value of datetime.now().isoformat().                         *)

generate_alert(log, transaction, risk_score, risk_level, indicators, now) ==
    [alert_id |-> FormatAlertId(Len(log) + 1),
     timestamp |-> now,
     transaction_id |-> GetOpt(transaction, "transaction_id"),
     customer_id |-> GetOpt(transaction, "customer_id"),
     amount |-> GetOpt(transaction, "amount"),
     risk_score |-> risk_score,
     risk_level |-> risk_level,
     indicators |-> indicators,
     recommended_action |-> get_recommended_action(risk_level),
     status |-> "PENDING_REVIEW"]

-----------------------------------------------------------------------------
(* analyze_transaction.                                                    *)

\* flagged_transactions counted only for the tiers that raise an alert
UpdateStatisticsFlagAlerted(stats, risk_level) ==
    LET counted == [stats EXCEPT !.total_transactions = @ + 1]
        flagged == [counted EXCEPT !.flagged_transactions = @ + 1]
    IN  IF risk_level = "CRITICAL" THEN [flagged EXCEPT !.critical_alerts = @ + 1]
        ELSE IF risk_level = "HIGH" THEN [flagged EXCEPT !.high_risk = @ + 1]
        ELSE IF risk_level = "MEDIUM" THEN [flagged EXCEPT !.medium_risk = @ + 1]
        ELSE IF risk_level = "LOW" THEN [counted EXCEPT !.low_risk = @ + 1]
        ELSE counted

\* a HIGH transaction counted in medium_risk
UpdateStatisticsHighAsMedium(stats, risk_level) ==
    LET counted == [stats EXCEPT !.total_transactions = @ + 1]
        flagged == [counted EXCEPT !.flagged_transactions = @ + 1]
    IN  IF risk_level # "NORMAL"
        THEN IF risk_level = "CRITICAL" THEN [flagged EXCEPT !.critical_alerts = @ + 1]
             ELSE IF risk_level = "HIGH" THEN [flagged EXCEPT !.medium_risk = @ + 1]
             ELSE IF risk_level = "MEDIUM" THEN [flagged EXCEPT !.medium_risk = @ + 1]
             ELSE IF risk_level = "LOW" THEN [flagged EXCEPT !.low_risk = @ + 1]
             ELSE flagged
        ELSE counted

\* lines 150-169: total always; flagged and the tier's counter unless NORMAL
UpdateStatistics(stats, risk_level) ==
    LET counted == [stats EXCEPT !.total_transactions = @ + 1]
        flagged == [counted EXCEPT !.flagged_transactions = @ + 1]
    IN  IF risk_level # "NORMAL"
        THEN IF risk_level = "CRITICAL" THEN [flagged EXCEPT !.critical_alerts = @ + 1]
             ELSE IF risk_level = "HIGH" THEN [flagged EXCEPT !.high_risk = @ + 1]
             ELSE IF risk_level = "MEDIUM" THEN [flagged EXCEPT !.medium_risk = @ + 1]
             ELSE IF risk_level = "LOW" THEN [flagged EXCEPT !.low_risk = @ + 1]
             ELSE flagged
        ELSE counted

\* an alert for every flagged tier
NeedsAlertWhenFlagged(risk_level) == risk_level # "NORMAL"

\* line 173: risk_level in ['CRITICAL', 'HIGH', 'MEDIUM']
NeedsAlert(risk_level) == risk_level \in {"CRITICAL", "HIGH", "MEDIUM"}

Analyze(transaction, now) ==
    LET scored == calculate_risk_score(transaction)
        risk_score == scored[1]
        indicators == scored[2]
        risk_level == classify_risk_level(risk_score)
        alert == IF NeedsAlert(risk_level)
                 THEN <<generate_alert(alerts, transaction, risk_score, risk_level,
                                       indicators, now)>>
                 ELSE <<>>
        result == [transaction_id |-> GetOpt(transaction, "transaction_id"),
                   risk_score |-> risk_score,
                   risk_level |-> risk_level,
                   indicators |-> indicators,
                   alert |-> alert]
    IN  /\ statistics' = UpdateStatistics(statistics, risk_level)
        /\ alerts' = alerts \o alert
        /\ results' = Append(results, result)
        /\ call' = [op |-> "analyze_transaction", argument |-> <<transaction>>,
                    returned |-> <<result>>]

-----------------------------------------------------------------------------
(* generate_report and generate_recommendations.                           *)

\* sorted(log, key=risk_score)[::-1]: ascending, then reversed, which puts the
\* later of two alerts of the same score first
SortedAscendingReversed(log) ==
    LET place(i) == 1 + Cardinality({j \in 1..Len(log) :
                          \/ log[j].risk_score > log[i].risk_score
                          \/ log[j].risk_score = log[i].risk_score /\ j > i})
    IN  [p \in 1..Len(log) |-> log[CHOOSE i \in 1..Len(log) : place(i) = p]]

\* sorted(log, key=risk_score, reverse=True): the built-in sort is stable, also
\* with reverse=True, so an alert comes after the alerts of a greater score and
\* after the earlier alerts of the same score
SortedByScore(log) ==
    LET place(i) == 1 + Cardinality({j \in 1..Len(log) :
                          \/ log[j].risk_score > log[i].risk_score
                          \/ log[j].risk_score = log[i].risk_score /\ j < i})
    IN  [p \in 1..Len(log) |-> log[CHOOSE i \in 1..Len(log) : place(i) = p]]

\* seq[:n]
Take(seq, n) == SubSeq(seq, 1, Min(n, Len(seq)))

top_alerts(log) == Take(SortedByScore(log), 10)

\* len([a for a in log if a['status'] == 'PENDING_REVIEW'])
pending_review(log) == Cardinality({i \in 1..Len(log) : log[i].status = "PENDING_REVIEW"})

\* f"{rate:.1f}" of rate = flagged / max(total, 1) * 100, in tenths of a percent,
\* rounded half to even
FlaggedRateTenths(stats) ==
    LET num == stats.flagged_transactions * 1000
        den == Max(stats.total_transactions, 1)
        q == num \div den
        r == num % den
    IN  IF 2 * r > den \/ (2 * r = den /\ q % 2 = 1) THEN q + 1 ELSE q

\* flagged_rate >= 10
FlaggedRateAtLeast(stats) ==
    stats.flagged_transactions * 100 >= 10 * Max(stats.total_transactions, 1)

\* flagged_rate > 10, with flagged_rate = flagged / max(total, 1) * 100
FlaggedRateHigh(stats) ==
    stats.flagged_transactions * 100 > 10 * Max(stats.total_transactions, 1)

CriticalRecommended(stats) == stats.critical_alerts > 0

HighRecommended(stats) == stats.high_risk > 5

generate_recommendations(stats) ==
    LET r1 == IF CriticalRecommended(stats)
              THEN <<[priority |-> "CRITICAL",
                      recommendation |-> <<"Immediate action required: ",
                                           stats.critical_alerts,
                                           " critical fraud alerts detected">>,
                      action |-> "Review and respond to all CRITICAL alerts within 1 hour"]>>
              ELSE <<>>
        r2 == IF HighRecommended(stats)
              THEN <<[priority |-> "HIGH",
                      recommendation |-> <<"Elevated fraud activity: ",
                                           stats.high_risk,
                                           " high-risk transactions">>,
                      action |-> "Increase monitoring and consider enhanced authentication"]>>
              ELSE <<>>
        r3 == IF FlaggedRateHigh(stats)
              THEN <<[priority |-> "MEDIUM",
                      recommendation |-> <<"High flag rate (",
                                           FlaggedRateTenths(stats),
                                           "%) - Review fraud detection thresholds">>,
                      action |-> "Analyze false positives and tune detection rules"]>>
              ELSE <<>>
    IN  r1 \o r2 \o r3

generate_report(log, stats, now) ==
    [report_generated |-> now,
     analysis_period |-> "24_HOURS",
     statistics |-> stats,
     alert_summary |-> [total_alerts |-> Len(log),
                        critical |-> stats.critical_alerts,
                        high |-> stats.high_risk,
                        medium |-> stats.medium_risk,
                        pending_review |-> pending_review(log)],
     top_alerts |-> top_alerts(log),
     recommendations |-> generate_recommendations(stats)]

\* the log sorted in place, self.alerts.sort(...), instead of sorted(self.alerts)
ReportSortingInPlace(now) ==
    /\ call' = [op |-> "generate_report", argument |-> <<>>,
                returned |-> <<generate_report(alerts, statistics, now)>>]
    /\ alerts' = SortedByScore(alerts)
    /\ UNCHANGED <<statistics, results>>

Report(now) ==
    /\ call' = [op |-> "generate_report", argument |-> <<>>,
                returned |-> <<generate_report(alerts, statistics, now)>>]
    /\ UNCHANGED <<alerts, statistics, results>>

-----------------------------------------------------------------------------
(* The engine driven by a caller: any sequence of analyze_transaction and  *)
(* generate_report calls on a fresh engine.                                *)

\* values of datetime.now().isoformat()
Clock == {"T0", "T1"}

TxnEmpty == <<>>

TxnRound ==
    [transaction_id |-> "TXN000001", customer_id |-> "CUST0001", amount |-> 500,
     avg_transaction_amount |-> 200, transactions_last_hour |-> 4, hour |-> 12,
     location_changed |-> FALSE, new_payee |-> FALSE, account_age_days |-> 400,
     pattern_match |-> FALSE]

TxnLow ==
    [transaction_id |-> "TXN000002", customer_id |-> "CUST0002", amount |-> 700,
     avg_transaction_amount |-> 200, new_payee |-> TRUE]

TxnMedium ==
    [transaction_id |-> "TXN000003", customer_id |-> "CUST0001", amount |-> 120,
     location_changed |-> TRUE, new_payee |-> TRUE, pattern_match |-> TRUE]

TxnHigh ==
    [transaction_id |-> "TXN000004", amount |-> 5000, avg_transaction_amount |-> 800,
     transactions_last_hour |-> 6, hour |-> 6, pattern_match |-> TRUE]

TxnNewAccount ==
    [amount |-> 10000, avg_transaction_amount |-> 500, transactions_last_hour |-> 4,
     hour |-> 3, location_changed |-> TRUE, account_age_days |-> 10]

TxnAll ==
    [transaction_id |-> "TXN000006", customer_id |-> "CUST0003", amount |-> 2000,
     avg_transaction_amount |-> 200, transactions_last_hour |-> 5, hour |-> 2,
     location_changed |-> TRUE, new_payee |-> TRUE, account_age_days |-> 5,
     pattern_match |-> TRUE]

Transactions == {TxnEmpty, TxnRound, TxnLow, TxnMedium, TxnHigh, TxnNewAccount, TxnAll}

Init ==
    /\ alerts = <<>>
    /\ statistics = InitialStatistics
    /\ results = <<>>
    /\ call = [op |-> "__init__", argument |-> <<>>, returned |-> <<>>]

AnalyzeAny ==
    \E transaction \in Transactions, now \in Clock :
        Len(results) < MaxCalls /\ Analyze(transaction, now)

ReportAny == \E now \in Clock : Report(now)

Next == AnalyzeAny \/ ReportAny

Spec == Init /\ [][Next]_vars

-----------------------------------------------------------------------------
(* Long runs for the report: more alerts than top_alerts keeps, with equal *)
(* and different scores.                                                   *)

TopTransactions == {TxnMedium, TxnNewAccount}

AnalyzeTop ==
    \E transaction \in TopTransactions :
        /\ Len(results) < MaxTopCalls
        /\ Analyze(transaction, "T0")

ReportTop == Report("T1")

NextTop == AnalyzeTop \/ ReportTop

SpecTop == Init /\ [][NextTop]_vars

-----------------------------------------------------------------------------
(* Long runs for the recommendations: enough calls for more than five      *)
(* high-risk transactions and for a flagged rate on either side of 10%.    *)

RecTransactions == {TxnEmpty, TxnHigh, TxnNewAccount}

AnalyzeRec ==
    \E transaction \in RecTransactions :
        /\ Len(results) < MaxRecCalls
        /\ transaction = TxnNewAccount => statistics.critical_alerts < MaxRecCritical
        /\ Analyze(transaction, "T0")

ReportRec == Report("T1")

NextRec == AnalyzeRec \/ ReportRec

SpecRec == Init /\ [][NextRec]_vars

-----------------------------------------------------------------------------
(* calculate_risk_score on its own: every combination of present and       *)
(* absent fields, with values on both sides of each condition.             *)

ScoredFields ==
    {"transactions_last_hour", "amount", "avg_transaction_amount", "hour",
     "location_changed", "new_payee", "account_age_days", "pattern_match"}

FieldValues ==
    [transactions_last_hour : {3, 4},
     amount : {0, 400, 500, 550, 1000, 1100, 1600},
     avg_transaction_amount : {0, 500},
     hour : {1, 2, 5, 6},
     location_changed : BOOLEAN,
     new_payee : BOOLEAN,
     account_age_days : {29, 30},
     pattern_match : BOOLEAN]

ScoredTransactions ==
    {[key \in present |-> values[key]] :
        present \in SUBSET ScoredFields, values \in FieldValues}

InitScore ==
    /\ alerts = <<>>
    /\ statistics = InitialStatistics
    /\ results = <<>>
    /\ \E transaction \in ScoredTransactions :
         call = [op |-> "calculate_risk_score", argument |-> <<transaction>>,
                 returned |-> <<>>]

Score ==
    /\ call.op = "calculate_risk_score"
    /\ call.returned = <<>>
    /\ call' = [call EXCEPT !.returned = <<calculate_risk_score(call.argument[1])>>]
    /\ UNCHANGED <<alerts, statistics, results>>

NextScore == Score

SpecScore == InitScore /\ [][NextScore]_vars

-----------------------------------------------------------------------------
(* classify_risk_level on its own: every score calculate_risk_score can    *)
(* return.                                                                 *)

Scores == 0..ClampScore(fraud_indicators.velocity + fraud_indicators.amount_spike
                        + fraud_indicators.time_anomaly + fraud_indicators.location_change
                        + fraud_indicators.new_payee + fraud_indicators.round_amount
                        + fraud_indicators.account_age + fraud_indicators.pattern_match)

InitClassify ==
    /\ alerts = <<>>
    /\ statistics = InitialStatistics
    /\ results = <<>>
    /\ \E risk_score \in Scores :
         call = [op |-> "classify_risk_level", argument |-> <<risk_score>>,
                 returned |-> <<>>]

Classify ==
    /\ call.op = "classify_risk_level"
    /\ call.returned = <<>>
    /\ call' = [call EXCEPT !.returned = <<classify_risk_level(call.argument[1])>>]
    /\ UNCHANGED <<alerts, statistics, results>>

NextClassify == Classify

SpecClassify == InitClassify /\ [][NextClassify]_vars

-----------------------------------------------------------------------------
(* Properties.  What the properties read of the last call.                 *)

Analyzed == call.op = "analyze_transaction"

Reported == call.op = "generate_report"

\* a step of analyze_transaction: the caller's list of results grows
AnalyzeStep == Len(results') = Len(results) + 1

Tiers == {"NORMAL", "LOW", "MEDIUM", "HIGH", "CRITICAL"}

\* the number of analyzed transactions classified in a tier
Classified(tier) == Cardinality({i \in 1..Len(results) : results[i].risk_level = tier})

-----------------------------------------------------------------------------
\* C1: after any sequence of analyze_transaction calls on a fresh engine, the
\* empty one included, flagged_transactions is the sum of the four tier counters
\* and total_transactions is at least flagged_transactions.
C1_StatisticsInvariant ==
    /\ statistics.flagged_transactions =
           statistics.critical_alerts + statistics.high_risk
           + statistics.medium_risk + statistics.low_risk
    /\ statistics.total_transactions >= statistics.flagged_transactions

\* three calls, one of them NORMAL, one LOW and one CRITICAL
C1_Witness ==
    /\ statistics.total_transactions = 3
    /\ statistics.flagged_transactions = 2
    /\ statistics.low_risk = 1
    /\ statistics.critical_alerts = 1

-----------------------------------------------------------------------------
\* C2: every analyze_transaction call whose tier is MEDIUM, HIGH or CRITICAL
\* appends exactly one alert to the log and returns that alert; a call whose
\* tier is NORMAL or LOW leaves the log unchanged and returns no alert.
C2_AlertIffTier ==
    [][AnalyzeStep =>
        LET result == results'[Len(results')]
        IN  /\ result.risk_level \in Tiers
            /\ IF result.risk_level \in {"MEDIUM", "HIGH", "CRITICAL"}
               THEN /\ Len(alerts') = Len(alerts) + 1
                    /\ SubSeq(alerts', 1, Len(alerts)) = alerts
                    /\ result.alert = <<alerts'[Len(alerts')]>>
               ELSE /\ alerts' = alerts
                    /\ result.alert = <<>>]_vars

\* a MEDIUM call that logged an alert, then a LOW call that logged none
C2_Witness ==
    /\ Len(results) = 2
    /\ results[1].risk_level = "MEDIUM"
    /\ results[1].alert = <<alerts[1]>>
    /\ results[2].risk_level = "LOW"
    /\ results[2].alert = <<>>
    /\ Len(alerts) = 1

-----------------------------------------------------------------------------
\* C8: analyzing {amount=10000, avg_transaction_amount=500,
\* transactions_last_hour=4, hour=3, location_changed=true, account_age_days=10}
\* triggers exactly HIGH_VELOCITY, AMOUNT_SPIKE, TIME_ANOMALY, LOCATION_CHANGE
\* and NEW_ACCOUNT_RISK, scores 95, is CRITICAL, and logs an alert whose
\* recommended action is the IMMEDIATE BLOCK one.
C8_Transaction ==
    [amount |-> 10000, avg_transaction_amount |-> 500, transactions_last_hour |-> 4,
     hour |-> 3, location_changed |-> TRUE, account_age_days |-> 10]

\* the claim as stated: five indicators and a score of 95
C8_Example ==
    (Analyzed /\ call.argument = <<C8_Transaction>>) =>
        LET result == call.returned[1]
        IN  /\ {result.indicators[i] : i \in 1..Len(result.indicators)} =
                   {"HIGH_VELOCITY", "AMOUNT_SPIKE", "TIME_ANOMALY", "LOCATION_CHANGE",
                    "NEW_ACCOUNT_RISK"}
            /\ result.risk_score = 95
            /\ result.risk_level = "CRITICAL"
            /\ result.alert # <<>>
            /\ result.alert[1].recommended_action =
                   "IMMEDIATE BLOCK - Contact customer and fraud team immediately"

\* C8, amended: the amount 10000 is also a round amount, so the transaction
\* triggers exactly HIGH_VELOCITY, AMOUNT_SPIKE, TIME_ANOMALY, LOCATION_CHANGE,
\* ROUND_AMOUNT and NEW_ACCOUNT_RISK, scores 20+25+15+20+5+15 = 100, is CRITICAL,
\* and logs an alert whose recommended action is the IMMEDIATE BLOCK one.
C8_ExampleAmended ==
    (Analyzed /\ call.argument = <<C8_Transaction>>) =>
        LET result == call.returned[1]
        IN  /\ result.indicators =
                   <<"HIGH_VELOCITY", "AMOUNT_SPIKE", "TIME_ANOMALY", "LOCATION_CHANGE",
                     "ROUND_AMOUNT", "NEW_ACCOUNT_RISK">>
            /\ result.risk_score = 20 + 25 + 15 + 20 + 5 + 15
            /\ result.risk_score = 100
            /\ result.risk_level = "CRITICAL"
            /\ result.alert = <<alerts[Len(alerts)]>>
            /\ result.alert[1].risk_score = 100
            /\ result.alert[1].recommended_action =
                   "IMMEDIATE BLOCK - Contact customer and fraud team immediately"

\* the transaction of the example has just been analyzed, after another one
C8_Witness ==
    /\ Analyzed
    /\ call.argument = <<C8_Transaction>>
    /\ Len(results) = 2
    /\ Len(alerts) >= 1

-----------------------------------------------------------------------------
\* C9: each analyze_transaction call adds 1 to total_transactions; a call whose
\* tier is not NORMAL also adds 1 to flagged_transactions and to the counter of
\* its tier and leaves the other tier counters unchanged; a NORMAL call changes
\* no other counter. Hence total_transactions is the number of calls and each
\* tier counter is the number of analyzed transactions classified in that tier.
C9_Tally ==
    /\ statistics.total_transactions = Len(results)
    /\ statistics.critical_alerts = Classified("CRITICAL")
    /\ statistics.high_risk = Classified("HIGH")
    /\ statistics.medium_risk = Classified("MEDIUM")
    /\ statistics.low_risk = Classified("LOW")
    /\ statistics.flagged_transactions = Len(results) - Classified("NORMAL")

C9_CounterOf ==
    [CRITICAL |-> "critical_alerts", HIGH |-> "high_risk", MEDIUM |-> "medium_risk",
     LOW |-> "low_risk"]

C9_Counting ==
    /\ []C9_Tally
    /\ [][AnalyzeStep =>
            LET tier == results'[Len(results')].risk_level
                bump == IF tier = "NORMAL" THEN {"total_transactions"}
                        ELSE {"total_transactions", "flagged_transactions",
                              C9_CounterOf[tier]}
            IN  \A counter \in DOMAIN statistics :
                    statistics'[counter] =
                        IF counter \in bump THEN statistics[counter] + 1
                        ELSE statistics[counter]]_vars

\* a LOW call counted although it logged no alert, a NORMAL and a HIGH call
C9_Witness ==
    /\ Len(results) = 3
    /\ results[1].risk_level = "LOW"
    /\ results[2].risk_level = "NORMAL"
    /\ results[3].risk_level = "HIGH"
    /\ statistics.low_risk = 1
    /\ statistics.high_risk = 1
    /\ statistics.flagged_transactions = 2
    /\ Len(alerts) = 1

-----------------------------------------------------------------------------
\* C10: generate_report, called in any reachable state, leaves every statistics
\* counter and the alert log unchanged, and its alert_summary gives the length
\* of the log, the critical, high and medium counters, and the number of logged
\* alerts whose status is PENDING_REVIEW.
C10_ReadOnly ==
    [][call'.op = "generate_report" =>
        LET summary == call'.returned[1].alert_summary
        IN  /\ alerts' = alerts
            /\ statistics' = statistics
            /\ summary.total_alerts = Len(alerts)
            /\ summary.critical = statistics.critical_alerts
            /\ summary.high = statistics.high_risk
            /\ summary.medium = statistics.medium_risk
            /\ summary.pending_review =
                   Cardinality({i \in 1..Len(alerts) :
                                   alerts[i].status = "PENDING_REVIEW"})]_vars

\* a report of a log of two alerts in ascending order of score
C10_Witness ==
    /\ Reported
    /\ Len(alerts) = 2
    /\ alerts[1].risk_score < alerts[2].risk_score
    /\ call.returned[1].alert_summary.total_alerts = 2
    /\ call.returned[1].alert_summary.pending_review = 2
    /\ statistics.total_transactions = 3

-----------------------------------------------------------------------------
\* C3: after any sequence of analyze_transaction calls the identifiers of the
\* alerts are unique and strictly increasing in creation order: the k-th alert
\* of the log has the identifier "ALERT-" followed by k written in decimal and
\* padded with zeros to 5 digits, so the first one is ALERT-00001.
C3_DigitValue ==
    [c \in {"0", "1", "2", "3", "4", "5", "6", "7", "8", "9"} |->
        CASE c = "0" -> 0 [] c = "1" -> 1 [] c = "2" -> 2 [] c = "3" -> 3
          [] c = "4" -> 4 [] c = "5" -> 5 [] c = "6" -> 6 [] c = "7" -> 7
          [] c = "8" -> 8 [] c = "9" -> 9]

\* the number a text of five decimal digits denotes
C3_Number(text) ==
    C3_DigitValue[text[1]] * 10000 + C3_DigitValue[text[2]] * 1000
    + C3_DigitValue[text[3]] * 100 + C3_DigitValue[text[4]] * 10
    + C3_DigitValue[text[5]]

C3_WellFormed(id) ==
    /\ Len(id) = 11
    /\ SubSeq(id, 1, 6) = <<"A", "L", "E", "R", "T", "-">>
    /\ \A i \in 7..11 : id[i] \in DOMAIN C3_DigitValue

C3_AlertIds ==
    /\ \A k \in 1..Len(alerts) :
          /\ C3_WellFormed(alerts[k].alert_id)
          /\ C3_Number(SubSeq(alerts[k].alert_id, 7, 11)) = k
    /\ \A j, k \in 1..Len(alerts) :
          j < k => /\ alerts[j].alert_id # alerts[k].alert_id
                   /\ C3_Number(SubSeq(alerts[j].alert_id, 7, 11))
                          < C3_Number(SubSeq(alerts[k].alert_id, 7, 11))
    /\ Len(alerts) >= 1 =>
          alerts[1].alert_id = <<"A", "L", "E", "R", "T", "-", "0", "0", "0", "0", "1">>

\* eleven alerts: the last identifier has two significant digits
C3_Witness ==
    /\ Len(alerts) = 11
    /\ alerts[11].alert_id = <<"A", "L", "E", "R", "T", "-", "0", "0", "0", "1", "1">>
    /\ alerts[10].alert_id = <<"A", "L", "E", "R", "T", "-", "0", "0", "0", "1", "0">>

-----------------------------------------------------------------------------
\* C4: calculate_risk_score returns min(sum of the weights of exactly those of
\* the eight indicators whose condition holds, 100), each condition evaluated
\* on its own; so the score is in 0..100 and a transaction that triggers all
\* eight indicators scores 100.
C4_Weight ==
    [HIGH_VELOCITY |-> 20, AMOUNT_SPIKE |-> 25, TIME_ANOMALY |-> 15,
     LOCATION_CHANGE |-> 20, NEW_PAYEE |-> 10, ROUND_AMOUNT |-> 5,
     NEW_ACCOUNT_RISK |-> 15, PATTERN_MATCH |-> 30]

\* the value of a field, or the default the code documents for it when absent
C4_Field(t, field) ==
    IF field \in DOMAIN t THEN t[field]
    ELSE CASE field \in {"transactions_last_hour", "amount", "avg_transaction_amount"} -> 0
           [] field = "hour" -> 12
           [] field = "account_age_days" -> 365
           [] field \in {"location_changed", "new_payee", "pattern_match"} -> FALSE

C4_Holds(t, indicator) ==
    CASE indicator = "HIGH_VELOCITY" -> C4_Field(t, "transactions_last_hour") > 3
      [] indicator = "AMOUNT_SPIKE" ->
            /\ C4_Field(t, "avg_transaction_amount") > 0
            /\ C4_Field(t, "amount") > 3 * C4_Field(t, "avg_transaction_amount")
      [] indicator = "TIME_ANOMALY" -> C4_Field(t, "hour") \in 2..5
      [] indicator = "LOCATION_CHANGE" -> C4_Field(t, "location_changed")
      [] indicator = "NEW_PAYEE" -> C4_Field(t, "new_payee")
      [] indicator = "ROUND_AMOUNT" ->
            /\ C4_Field(t, "amount") > 0
            /\ C4_Field(t, "amount") % 100 = 0
            /\ C4_Field(t, "amount") >= 500
      [] indicator = "NEW_ACCOUNT_RISK" ->
            /\ C4_Field(t, "account_age_days") < 30
            /\ C4_Field(t, "amount") > 1000
      [] indicator = "PATTERN_MATCH" -> C4_Field(t, "pattern_match")

RECURSIVE C4_Sum(_)
C4_Sum(indicators) ==
    IF indicators = {} THEN 0
    ELSE LET i == CHOOSE i \in indicators : TRUE
         IN  C4_Weight[i] + C4_Sum(indicators \ {i})

C4_Score ==
    (call.op = "calculate_risk_score" /\ call.returned # <<>>) =>
        LET t == call.argument[1]
            score == call.returned[1][1]
            triggered == call.returned[1][2]
            holding == {i \in DOMAIN C4_Weight : C4_Holds(t, i)}
        IN  /\ score = IF C4_Sum(holding) < 100 THEN C4_Sum(holding) ELSE 100
            /\ {triggered[i] : i \in 1..Len(triggered)} = holding
            /\ Len(triggered) = Cardinality(holding)
            /\ score \in 0..100
            /\ holding = DOMAIN C4_Weight => score = 100

\* a transaction that triggers all eight indicators, scored
C4_Witness ==
    /\ call.op = "calculate_risk_score"
    /\ call.returned # <<>>
    /\ Len(call.returned[1][2]) = 8
    /\ call.returned[1][1] = 100

-----------------------------------------------------------------------------
\* C5: classify_risk_level maps a score in 0..100 to NORMAL below 30, LOW for
\* 30..59, MEDIUM for 60..79, HIGH for 80..94 and CRITICAL from 95; the tier
\* depends on the score alone and never decreases in severity as the score
\* increases.
C5_Severity == [NORMAL |-> 0, LOW |-> 1, MEDIUM |-> 2, HIGH |-> 3, CRITICAL |-> 4]

C5_Tier(score) ==
    CASE score \in 0..29 -> "NORMAL"
      [] score \in 30..59 -> "LOW"
      [] score \in 60..79 -> "MEDIUM"
      [] score \in 80..94 -> "HIGH"
      [] score \in 95..100 -> "CRITICAL"

C5_Classification ==
    (call.op = "classify_risk_level" /\ call.returned # <<>>) =>
        LET score == call.argument[1]
            tier == call.returned[1]
        IN  /\ tier = C5_Tier(score)
            /\ \A lower \in 0..score :
                   C5_Severity[classify_risk_level(lower)] <= C5_Severity[tier]
            /\ \A higher \in score..100 :
                   C5_Severity[classify_risk_level(higher)] >= C5_Severity[tier]

\* the lowest CRITICAL score, classified
C5_Witness ==
    /\ call.op = "classify_risk_level"
    /\ call.argument = <<95>>
    /\ call.returned = <<"CRITICAL">>

-----------------------------------------------------------------------------
\* C6: for any alert log reached by analyze_transaction calls, the top_alerts
\* of generate_report holds min(10, number of alerts) alerts of the log, in
\* non-increasing order of risk score, no alert left out scoring more than one
\* kept, and alerts of equal score in their order of creation.
C6_Position(alert) == CHOOSE k \in 1..Len(alerts) : alerts[k] = alert

C6_TopAlerts ==
    Reported =>
        LET top == call.returned[1].top_alerts
            kept == {top[i] : i \in 1..Len(top)}
            left == {alerts[k] : k \in 1..Len(alerts)} \ kept
        IN  /\ Len(top) = IF Len(alerts) < 10 THEN Len(alerts) ELSE 10
            /\ \A i \in 1..Len(top) : \E k \in 1..Len(alerts) : alerts[k] = top[i]
            /\ Cardinality(kept) = Len(top)
            /\ \A i \in 1..(Len(top) - 1) : top[i].risk_score >= top[i + 1].risk_score
            /\ \A a \in left : \A b \in kept : a.risk_score <= b.risk_score
            /\ \A i, j \in 1..Len(top) :
                   (i < j /\ top[i].risk_score = top[j].risk_score)
                       => C6_Position(top[i]) < C6_Position(top[j])
            /\ \A a \in left : \A b \in kept :
                   a.risk_score = b.risk_score => C6_Position(b) < C6_Position(a)

\* a report of eleven alerts, the first of them of the lower score: ten are kept,
\* among them alerts of both scores, and an alert is left out
C6_Witness ==
    /\ Reported
    /\ Len(alerts) = 11
    /\ Len(call.returned[1].top_alerts) = 10
    /\ alerts[1].risk_score < alerts[2].risk_score
    /\ call.returned[1].top_alerts[1].risk_score
           > call.returned[1].top_alerts[10].risk_score
    /\ call.returned[1].top_alerts[1].risk_score
           = call.returned[1].top_alerts[2].risk_score

-----------------------------------------------------------------------------
\* C7: generate_recommendations returns, in this order and leaving out those
\* whose condition is unmet, a CRITICAL entry iff critical_alerts > 0, a HIGH
\* entry iff high_risk > 5 and a MEDIUM entry iff flagged/total is strictly
\* above 10%, the rate being 0% when total is 0; total=10 with flagged=2 gives
\* the MEDIUM entry and total=10 with flagged=1 does not.
C7_Priorities(recommendations) ==
    [i \in 1..Len(recommendations) |-> recommendations[i].priority]

C7_Recommendations ==
    Reported =>
        LET priorities == C7_Priorities(call.returned[1].recommendations)
            total == statistics.total_transactions
            flagged == statistics.flagged_transactions
            critical == IF statistics.critical_alerts > 0 THEN <<"CRITICAL">> ELSE <<>>
            high == IF statistics.high_risk > 5 THEN <<"HIGH">> ELSE <<>>
            medium == IF total > 0 /\ 10 * flagged > total THEN <<"MEDIUM">> ELSE <<>>
        IN  /\ priorities = critical \o high \o medium
            /\ (total = 10 /\ flagged = 2) =>
                   \E i \in 1..Len(priorities) : priorities[i] = "MEDIUM"
            /\ (total = 10 /\ flagged = 1) =>
                   \A i \in 1..Len(priorities) : priorities[i] # "MEDIUM"
            /\ total = 0 => priorities = <<>>

\* a report after ten calls, six of them HIGH and one CRITICAL: all three entries
C7_Witness ==
    /\ Reported
    /\ statistics.total_transactions = 10
    /\ statistics.high_risk = 6
    /\ statistics.critical_alerts = 1
    /\ C7_Priorities(call.returned[1].recommendations) = <<"CRITICAL", "HIGH", "MEDIUM">>

=============================================================================
